---- MODULE Spec2Model ----
(***************************************************************************)
(* Model of image-converter: the Format Registry (core/formats.py), the    *)
(* Single-Unit Converter (core/converter.py) and the Batch Orchestrator    *)
(* and File Collector (utils/batch.py).                                    *)
(*                                                                         *)
(* A path is a record [parent, stem, suffix] whose parent is the sequence   *)
(* of the directory's components.  The filesystem is the set of existing   *)
(* regular files (fs_files) and the set of existing directories (fs_dirs), *)
(* both under canonical paths.  The codec (Pillow) is modelled by its      *)
(* outcome on each input: it writes the output file, or it fails to decode *)
(* a corrupt input and writes nothing.  Every step of convert that reads   *)
(* or writes the filesystem is one action, so that concurrent convert      *)
(* calls interleave between the checks and the write.                      *)
(***************************************************************************)
EXTENDS Integers, Sequences, FiniteSets, TLC

VARIABLES
    files,          \* process(files, ...): the list of input paths
    workers_arg,    \* BatchProcessor(converter, max_workers=workers_arg)
    max_workers,    \* self.max_workers
    output_dir,     \* process(..., output_dir)
    overwrite,      \* process(..., overwrite)
    show_progress,  \* process(..., show_progress)
    fs_files,       \* regular files that exist
    fs_dirs,        \* directories that exist
    pc,             \* position of the thread that calls process
    tpc,            \* position of each submitted task (future)
    outcome,        \* what each finished future holds: a result or an exception
    handled,        \* futures already yielded by as_completed, in that order
    result,         \* the BatchResult under construction
    log,            \* progress lines emitted by process
    codec_calls,    \* per task, number of _convert_image invocations
    mkdir_calls,    \* per task, number of output_dir.mkdir invocations
    convert_calls,  \* per task, number of convert invocations
    fs0,            \* the regular files that existed when process was called
    c_paths,        \* collect_files(paths, ...): the paths given by the caller
    recursive,      \* collect_files(..., recursive)
    c_pc,           \* position of collect_files
    c_k,            \* position of the loop over paths
    c_files,        \* the local list files of collect_files
    c_warnings,     \* the paths collect_files logged a warning for
    c_ret,          \* the list collect_files returned
    m_pc,           \* position of main
    m_args,         \* the parsed command line of main
    exit_code,      \* the value main returned
    quality_arg,    \* the quality the converter is constructed with
    quality,        \* ImageConverter.quality
    upd             \* the loop iterations of process that are updating result

batch_vars == <<files, workers_arg, max_workers, output_dir, overwrite, show_progress,
                fs_files, fs_dirs, pc, tpc, outcome, handled, result, log,
                codec_calls, mkdir_calls, convert_calls, fs0>>

collect_vars == <<c_paths, recursive, c_pc, c_k, c_files, c_warnings, c_ret>>

cli_vars == <<m_pc, m_args, exit_code, quality_arg, quality>>

loop_vars == <<upd>>

vars == <<batch_vars, collect_vars, cli_vars, loop_vars>>

----------------------------------------------------------------------------
(* Bounds of the model *)

MaxFiles == 2

MaxWorkersArg == 2

MaxPaths == 2

\* how far below MIN_QUALITY and above MAX_QUALITY a requested quality lies
MaxExcess == 50

----------------------------------------------------------------------------
(* Paths *)

\* a path is its directory (the sequence of its components), the stem and the
\* suffix of its last component: pics/sub/e.jpeg is
\* [parent |-> <<"pics", "sub">>, stem |-> "e", suffix |-> ".jpeg"]
Path(d, s, e) == [parent |-> d, stem |-> s, suffix |-> e]

\* Optional[Path] = None
NonePath == Path(<<"<None>">>, "", "")

\* output_dir = None
NoneDir == <<"<None>">>

\* error_message = None
NoneMsg == "<None>"

\* the working directory of the process
Cwd == <<"/", "cwd">>

IsAbsolute(d) == Len(d) > 0 /\ d[1] = "/"

Absolute(d) == IF IsAbsolute(d) THEN d ELSE Cwd \o d

\* a directory path spelled as a path record
AsFile(d) == Path(SubSeq(d, 1, Len(d) - 1), d[Len(d)], "")

\* the directory a path record names when it names one
AsDir(p) == Append(p.parent, p.stem \o p.suffix)

a_png == Path(<<"d1">>, "a", ".png")

a_jpg == Path(<<"d1">>, "a", ".jpg")

c_png == Path(<<"d1">>, "c", ".png")

b_bmp == Path(<<"d1">>, "b", ".bmp")

m_bmp == Path(<<"d1">>, "m", ".bmp")

x_png == Path(<<"priv">>, "x", ".png")

\* the paths a file list is drawn from
InputPaths == {a_png, a_jpg, c_png, b_bmp, m_bmp, x_png}

\* the one symbolic link of the filesystem: pics/l.png -> pics/a.png
LinkPath == Path(Cwd \o <<"pics">>, "l", ".png")

LinkTarget == Path(Cwd \o <<"pics">>, "a", ".png")

\* Path.resolve(): absolute, symbolic links followed
Resolve(p) ==
    LET q == [p EXCEPT !.parent = Absolute(@)] IN
      IF q = LinkPath THEN LinkTarget ELSE q

\* the regular files present when the program starts (canonical paths)
InitialFiles ==
    {Resolve(a_png), Resolve(a_jpg), Resolve(c_png), Resolve(b_bmp),
     Resolve(x_png),
     Path(Cwd \o <<"pics">>, "a", ".png"),
     Path(Cwd \o <<"pics">>, "E", ".JPG"),
     Path(Cwd \o <<"pics">>, "b", ".bmp"),
     Path(Cwd \o <<"mix">>, "g", ".Png"),
     Path(Cwd \o <<"pics", "sub">>, "e", ".jpeg"),
     Path(Cwd, "blk", "")}

\* the directories present when the program starts (canonical paths)
InitialDirs ==
    {Cwd, Cwd \o <<"d1">>, Cwd \o <<"priv">>, Cwd \o <<"pics">>,
     Cwd \o <<"pics", "sub">>, Cwd \o <<"mix">>, Cwd \o <<"mix", "d.png">>}

\* directories the process has no search permission on: stat() of an entry
\* fails with EACCES
UnsearchableDirs == {Cwd \o <<"priv">>}

\* inputs the codec cannot decode (Image.open raises)
CorruptFiles == {c_png}

\* candidate output directories: one that does not exist yet, and a name
\* taken by a regular file
OutDirs == {<<"out">>, <<"blk">>}

----------------------------------------------------------------------------
(* core/formats.py *)

SUPPORTED_INPUT_FORMATS == {".png", ".jpg", ".jpeg"}

OUTPUT_FORMAT == ".avif"

\* str.lower() on the suffixes of the model
Lower(e) ==
    CASE e = ".PNG" -> ".png"
      [] e = ".JPG" -> ".jpg"
      [] e = ".JPEG" -> ".jpeg"
      [] e = ".Png" -> ".png"
      [] e = ".BMP" -> ".bmp"
      [] OTHER -> e

is_supported_format(file_path) ==
    Lower(file_path.suffix) \in SUPPORTED_INPUT_FORMATS

\* an output always written next to the input
get_output_path_SameDir(input_path, dir) ==
    Path(input_path.parent, input_path.stem, OUTPUT_FORMAT)

get_output_path(input_path, dir) ==
    IF dir # NoneDir
      THEN Path(dir, input_path.stem, OUTPUT_FORMAT)
      ELSE Path(input_path.parent, input_path.stem, OUTPUT_FORMAT)

----------------------------------------------------------------------------
(* core/converter.py *)

ConversionResult(ip, op, ok, msg) ==
    [input_path |-> ip, output_path |-> op, success |-> ok, error_message |-> msg]

\* Path.exists()
Exists(p, ff) == Resolve(p) \in ff

MsgNotFound == "File not found"

MsgUnsupported == "Unsupported format"

MsgOutputExists == "Output exists (use --overwrite)"

MsgCodec == "cannot identify image file"

MsgMkdir == "[Errno 17] File exists"

MsgPermission == "[Errno 13] Permission denied"

\* Path.exists() lets every OSError but ENOENT, ENOTDIR, EBADF and ELOOP
\* propagate: it raises PermissionError below an unsearchable directory
StatRaises(p) == Absolute(p.parent) \in UnsearchableDirs

\* a future that finished by returning r
Returned(r) == [raised |-> FALSE, exc |-> NoneMsg, res |-> r]

\* a future that finished by raising an exception whose str() is msg
Raised(msg) ==
    [raised |-> TRUE, exc |-> msg,
     res |-> ConversionResult(NonePath, NonePath, FALSE, NoneMsg)]

NoOutcome == Returned(ConversionResult(NonePath, NonePath, FALSE, NoneMsg))

\* checks whose 'Output exists' result carries no output path
ConvertChecks_NoOutputPath(input_path, dir, ow, ff) ==
    IF ~Exists(input_path, ff)
      THEN ConversionResult(input_path, NonePath, FALSE, MsgNotFound)
    ELSE IF ~is_supported_format(input_path)
      THEN ConversionResult(input_path, NonePath, FALSE, MsgUnsupported)
    ELSE IF Exists(get_output_path(input_path, dir), ff) /\ ~ow
      THEN ConversionResult(input_path, NonePath, FALSE, MsgOutputExists)
    ELSE ConversionResult(input_path, get_output_path(input_path, dir), TRUE, "go")

\* the checks without the test of an existing output
ConvertChecks_NoOutputCheck(input_path, dir, ow, ff) ==
    IF ~Exists(input_path, ff)
      THEN ConversionResult(input_path, NonePath, FALSE, MsgNotFound)
    ELSE IF ~is_supported_format(input_path)
      THEN ConversionResult(input_path, NonePath, FALSE, MsgUnsupported)
    ELSE ConversionResult(input_path, get_output_path(input_path, dir), TRUE, "go")

\* the checks with the format test before the existence test
ConvertChecks_FormatFirst(input_path, dir, ow, ff) ==
    IF ~is_supported_format(input_path)
      THEN ConversionResult(input_path, NonePath, FALSE, MsgUnsupported)
    ELSE IF ~Exists(input_path, ff)
      THEN ConversionResult(input_path, NonePath, FALSE, MsgNotFound)
    ELSE IF Exists(get_output_path(input_path, dir), ff) /\ ~ow
      THEN ConversionResult(input_path, get_output_path(input_path, dir),
                            FALSE, MsgOutputExists)
    ELSE ConversionResult(input_path, get_output_path(input_path, dir), TRUE, "go")

\* convert, lines 87-117: the checks that return before anything is created.
\* "go" means none of them matched.
ConvertChecks(input_path, dir, ow, ff) ==
    IF ~Exists(input_path, ff)
      THEN ConversionResult(input_path, NonePath, FALSE, MsgNotFound)
    ELSE IF ~is_supported_format(input_path)
      THEN ConversionResult(input_path, NonePath, FALSE, MsgUnsupported)
    ELSE IF Exists(get_output_path(input_path, dir), ff) /\ ~ow
      THEN ConversionResult(input_path, get_output_path(input_path, dir),
                            FALSE, MsgOutputExists)
    ELSE ConversionResult(input_path, get_output_path(input_path, dir), TRUE, "go")

\* Path.mkdir(parents=True, exist_ok=True) fails when the name is taken by a
\* regular file
MkdirFails(dir, ff, dd) == Absolute(dir) \notin dd /\ Exists(AsFile(dir), ff)

\* _convert_image: TRUE when the codec decodes the input and saves the output
CodecSucceeds(input_path) == input_path \notin CorruptFiles

DEFAULT_QUALITY == 80

MIN_QUALITY == 0

MAX_QUALITY == 100

\* a constructor that stores the requested quality as it is
validate_quality_NoClamp(q) == q

\* ImageConverter._validate_quality
validate_quality(q) ==
    IF q < MIN_QUALITY THEN MIN_QUALITY
    ELSE IF q > MAX_QUALITY THEN MAX_QUALITY
    ELSE q

----------------------------------------------------------------------------
(* utils/batch.py *)

DEFAULT_WORKERS == 4

Max(x, y) == IF x >= y THEN x ELSE y

Min(x, y) == IF x <= y THEN x ELSE y

\* the constructor without the clamp: self.max_workers = max_workers
InitMaxWorkers_NoClamp(arg) == arg

\* BatchProcessor.__init__
InitMaxWorkers(arg) == Max(1, arg)

BatchResult(n) == [total |-> n, successful |-> 0, failed |-> 0, results |-> <<>>]

success_rate(r) ==
    IF r.total = 0 THEN 0 ELSE (r.successful * 100) \div r.total

Range(s) == {s[k] : k \in DOMAIN s}

Tasks == DOMAIN files

Running == {i \in Tasks : tpc[i] \in {"convert", "mkdir", "codec"}}

Pending == {i \in Tasks : tpc[i] = "pending"}

Finished == {i \in Tasks : tpc[i] = "finished"}

\* a pool built without the configured limit
PoolSize_Default == DEFAULT_WORKERS

\* ThreadPoolExecutor(max_workers=self.max_workers): the number of pool threads
PoolSize == max_workers

\* an except clause that names a class the raised exceptions do not belong to
CaughtByExcept_None(o) == FALSE

\* the except clause of the collection loop: `except Exception`
CaughtByExcept(o) == o.raised

\* as_completed(future_to_file) is exhausted
AllHandled == Range(handled) = Tasks

\* leaving the with block: shutdown(wait=True) returns once every work item
\* has run
PoolJoined == \A i \in Tasks : tpc[i] = "finished"

\* a try branch that keeps only the successful results
RecordResult_DropFailures(r, conv_result) ==
    [r EXCEPT !.results = IF conv_result.success THEN Append(@, conv_result) ELSE @,
              !.successful = IF conv_result.success THEN @ + 1 ELSE @,
              !.failed = IF conv_result.success THEN @ ELSE @ + 1]

\* a try branch that counts every returned result as a success
RecordResult_CountAll(r, conv_result) ==
    [r EXCEPT !.results = Append(@, conv_result),
              !.successful = @ + 1]

\* process, lines 139-149: the try branch of one loop iteration
RecordResult(r, conv_result) ==
    [r EXCEPT !.results = Append(@, conv_result),
              !.successful = IF conv_result.success THEN @ + 1 ELSE @,
              !.failed = IF conv_result.success THEN @ ELSE @ + 1]

\* an except branch that forgets result.failed += 1
RecordException_NoCount(r, file_path, msg) ==
    [r EXCEPT !.results = Append(@, ConversionResult(file_path, NonePath, FALSE, msg))]

\* process, lines 157-166: the except branch of one loop iteration
RecordException(r, file_path, msg) ==
    [r EXCEPT !.failed = @ + 1,
              !.results = Append(@, ConversionResult(file_path, NonePath, FALSE, msg))]

\* a progress index that is the position of the task in the file list
ProgressIndex_ListPosition(i, h) == i

\* process, line 135: enumerate(as_completed(future_to_file), 1), the running
\* count of the futures yielded so far, for the future of task i yielded after
\* those of h
ProgressIndex(i, h) == Len(h) + 1

\* one progress line "[i/N] status name - error"
ProgressLine(i, n, ok, name, msg) ==
    [i |-> i, n |-> n, ok |-> ok, name |-> name, msg |-> msg]

\* the values of max_workers a caller passes
WorkerArgs == {-1, 0} \cup (1..MaxWorkersArg)

\* the output files that may exist before process is called: an output can
\* only be there when its directory is
PreExisting(dir) ==
    IF Absolute(get_output_path(a_png, dir).parent) \in InitialDirs
      THEN SUBSET {Resolve(get_output_path(a_png, dir))}
      ELSE {{}}

\* main() did not return (yet)
NoExit == -1

\* no command line
NoArgs == [kind |-> "none"]

\* main is not running; the converter is built with the default quality
CliIdle ==
    /\ m_pc = "idle"
    /\ m_args = NoArgs
    /\ exit_code = NoExit
    /\ quality_arg = DEFAULT_QUALITY
    /\ quality = validate_quality(DEFAULT_QUALITY)

\* collect_files is not running
CollectIdle ==
    /\ c_paths = <<>>
    /\ recursive = TRUE
    /\ c_pc = "idle"
    /\ c_k = 1
    /\ c_files = <<>>
    /\ c_warnings = <<>>
    /\ c_ret = <<>>

TypeOK ==
    /\ files \in Seq(InputPaths)
    /\ Len(files) <= MaxFiles
    /\ workers_arg \in WorkerArgs
    /\ max_workers \in Int
    /\ output_dir \in OutDirs \cup {NoneDir}
    /\ overwrite \in BOOLEAN
    /\ show_progress \in BOOLEAN
    /\ pc \in {"idle", "start", "as_completed", "returned", "raised"}
    /\ Range(handled) \subseteq Tasks
    /\ DOMAIN tpc = Tasks
    /\ \A i \in Tasks : tpc[i] \in {"pending", "convert", "mkdir", "codec", "finished"}

Init ==
    /\ files \in UNION {[1..n -> InputPaths] : n \in 0..MaxFiles}
    /\ workers_arg \in WorkerArgs
    /\ max_workers = InitMaxWorkers(workers_arg)
    /\ output_dir \in OutDirs \cup {NoneDir}
    /\ overwrite \in BOOLEAN
    /\ show_progress = TRUE
    /\ fs_dirs = InitialDirs
    /\ \E pre \in PreExisting(output_dir) : fs_files = InitialFiles \cup pre
    /\ fs0 = fs_files
    /\ pc = "start"
    /\ tpc = [i \in DOMAIN files |-> "pending"]
    /\ outcome = [i \in DOMAIN files |-> NoOutcome]
    /\ handled = <<>>
    /\ result = BatchResult(0)
    /\ log = <<>>
    /\ codec_calls = [i \in DOMAIN files |-> 0]
    /\ mkdir_calls = [i \in DOMAIN files |-> 0]
    /\ convert_calls = [i \in DOMAIN files |-> 0]
    /\ upd = {}
    /\ CollectIdle
    /\ CliIdle

\* process, lines 113-132: create the BatchResult, return at once for an empty
\* list, else open the pool and submit one convert per file
ProcessCall ==
    /\ pc = "start"
    /\ result' = BatchResult(Len(files))
    /\ pc' = IF Len(files) = 0 THEN "returned" ELSE "as_completed"
    /\ UNCHANGED <<files, workers_arg, max_workers, output_dir, overwrite,
                   show_progress, fs_files, fs_dirs, tpc, outcome, handled, log,
                   codec_calls, mkdir_calls, convert_calls, fs0>>
    /\ UNCHANGED <<collect_vars, cli_vars, loop_vars>>

\* a pool that submits a failed conversion a second time
StartTask_Retry(i) ==
    /\ pc = "as_completed"
    /\ \/ tpc[i] = "pending" /\ \A j \in Pending : i <= j
       \/ /\ tpc[i] = "finished"
          /\ i \notin Range(handled)
          /\ outcome[i].raised \/ ~outcome[i].res.success
          /\ convert_calls[i] < 2
    /\ Cardinality(Running) < PoolSize
    /\ tpc' = [tpc EXCEPT ![i] = "convert"]
    /\ convert_calls' = [convert_calls EXCEPT ![i] = @ + 1]
    /\ UNCHANGED <<files, workers_arg, max_workers, output_dir, overwrite,
                   show_progress, fs_files, fs_dirs, pc, outcome, handled,
                   result, log, codec_calls, mkdir_calls, fs0>>
    /\ UNCHANGED <<collect_vars, cli_vars, loop_vars>>

\* a pool thread takes the next work item of the FIFO queue and calls convert;
\* the pool has at most PoolSize threads
StartTask(i) ==
    /\ pc = "as_completed"
    /\ tpc[i] = "pending"
    /\ \A j \in Pending : i <= j
    /\ Cardinality(Running) < PoolSize
    /\ tpc' = [tpc EXCEPT ![i] = "convert"]
    /\ convert_calls' = [convert_calls EXCEPT ![i] = @ + 1]
    /\ UNCHANGED <<files, workers_arg, max_workers, output_dir, overwrite,
                   show_progress, fs_files, fs_dirs, pc, outcome, handled,
                   result, log, codec_calls, mkdir_calls, fs0>>
    /\ UNCHANGED <<collect_vars, cli_vars, loop_vars>>

\* a convert that creates the output directory before the three checks
ConvertValidate_MkdirFirst(i) ==
    /\ tpc[i] = "convert"
    /\ fs_dirs' = IF output_dir # NoneDir /\ ~MkdirFails(output_dir, fs_files, fs_dirs)
                    THEN fs_dirs \cup {Absolute(output_dir)}
                    ELSE fs_dirs
    /\ IF StatRaises(files[i])
         THEN /\ tpc' = [tpc EXCEPT ![i] = "finished"]
              /\ outcome' = [outcome EXCEPT ![i] = Raised(MsgPermission)]
         ELSE LET r == ConvertChecks(files[i], output_dir, overwrite, fs_files) IN
                IF r.error_message = "go"
                  THEN /\ tpc' = [tpc EXCEPT ![i] =
                                    IF output_dir # NoneDir THEN "mkdir" ELSE "codec"]
                       /\ UNCHANGED outcome
                  ELSE /\ tpc' = [tpc EXCEPT ![i] = "finished"]
                       /\ outcome' = [outcome EXCEPT ![i] = Returned(r)]
    /\ UNCHANGED <<files, workers_arg, max_workers, output_dir, overwrite,
                   show_progress, fs_files, pc, handled, result, log,
                   codec_calls, mkdir_calls, convert_calls, fs0>>
    /\ UNCHANGED <<collect_vars, cli_vars, loop_vars>>

\* convert, lines 87-119: the three checks and the test of output_dir
ConvertValidate(i) ==
    /\ tpc[i] = "convert"
    /\ IF StatRaises(files[i])
         THEN /\ tpc' = [tpc EXCEPT ![i] = "finished"]
              /\ outcome' = [outcome EXCEPT ![i] = Raised(MsgPermission)]
         ELSE LET r == ConvertChecks(files[i], output_dir, overwrite, fs_files) IN
                IF r.error_message = "go"
                  THEN /\ tpc' = [tpc EXCEPT ![i] =
                                    IF output_dir # NoneDir THEN "mkdir" ELSE "codec"]
                       /\ UNCHANGED outcome
                  ELSE /\ tpc' = [tpc EXCEPT ![i] = "finished"]
                       /\ outcome' = [outcome EXCEPT ![i] = Returned(r)]
    /\ UNCHANGED <<files, workers_arg, max_workers, output_dir, overwrite,
                   show_progress, fs_files, fs_dirs, pc, handled, result, log,
                   codec_calls, mkdir_calls, convert_calls, fs0>>
    /\ UNCHANGED <<collect_vars, cli_vars, loop_vars>>

\* convert, lines 119-121: output_dir.mkdir(parents=True, exist_ok=True),
\* outside the try block
ConvertMkdir(i) ==
    /\ tpc[i] = "mkdir"
    /\ output_dir # NoneDir
    /\ mkdir_calls' = [mkdir_calls EXCEPT ![i] = @ + 1]
    /\ IF MkdirFails(output_dir, fs_files, fs_dirs)
         THEN /\ tpc' = [tpc EXCEPT ![i] = "finished"]
              /\ outcome' = [outcome EXCEPT ![i] = Raised(MsgMkdir)]
              /\ UNCHANGED fs_dirs
         ELSE /\ tpc' = [tpc EXCEPT ![i] = "codec"]
              /\ fs_dirs' = fs_dirs \cup {Absolute(output_dir)}
              /\ UNCHANGED outcome
    /\ UNCHANGED <<files, workers_arg, max_workers, output_dir, overwrite,
                   show_progress, fs_files, pc, handled, result, log,
                   codec_calls, convert_calls, fs0>>
    /\ UNCHANGED <<collect_vars, cli_vars, loop_vars>>

\* convert, lines 123-138: _convert_image inside try/except Exception
ConvertImage(i) ==
    /\ tpc[i] = "codec"
    /\ LET out == get_output_path(files[i], output_dir) IN
         IF CodecSucceeds(files[i])
           THEN /\ fs_files' = fs_files \cup {Resolve(out)}
                /\ outcome' = [outcome EXCEPT ![i] =
                      Returned(ConversionResult(files[i], out, TRUE, NoneMsg))]
           ELSE /\ UNCHANGED fs_files
                /\ outcome' = [outcome EXCEPT ![i] =
                      Returned(ConversionResult(files[i], out, FALSE, MsgCodec))]
    /\ tpc' = [tpc EXCEPT ![i] = "finished"]
    /\ codec_calls' = [codec_calls EXCEPT ![i] = @ + 1]
    /\ UNCHANGED <<files, workers_arg, max_workers, output_dir, overwrite,
                   show_progress, fs_dirs, pc, handled, result, log,
                   mkdir_calls, convert_calls, fs0>>
    /\ UNCHANGED <<collect_vars, cli_vars, loop_vars>>

\* process, lines 135-168: one iteration of the loop over as_completed
HandleFuture(i) ==
    /\ pc = "as_completed"
    /\ tpc[i] = "finished"
    /\ i \notin Range(handled)
    /\ handled' = Append(handled, i)
    /\ LET o == outcome[i]
           k == ProgressIndex(i, handled)
       IN
       IF ~o.raised
         THEN /\ result' = RecordResult(result, o.res)
              /\ log' = IF show_progress
                   THEN Append(log, ProgressLine(k, Len(files), o.res.success,
                                                 o.res.input_path, o.res.error_message))
                   ELSE log
              /\ pc' = pc
       ELSE IF CaughtByExcept(o)
         THEN /\ result' = RecordException(result, files[i], o.exc)
              /\ log' = IF show_progress
                   THEN Append(log, ProgressLine(k, Len(files), FALSE, files[i], o.exc))
                   ELSE log
              /\ pc' = pc
       ELSE /\ pc' = "raised"
            /\ UNCHANGED <<result, log>>
    /\ UNCHANGED <<files, workers_arg, max_workers, output_dir, overwrite,
                   show_progress, fs_files, fs_dirs, tpc, outcome,
                   codec_calls, mkdir_calls, convert_calls, fs0>>
    /\ UNCHANGED <<collect_vars, cli_vars, loop_vars>>

\* process, lines 135 and 170: as_completed is exhausted, the with block is
\* left and process returns
ProcessReturn ==
    /\ pc = "as_completed"
    /\ AllHandled
    /\ PoolJoined
    /\ pc' = "returned"
    /\ UNCHANGED <<files, workers_arg, max_workers, output_dir, overwrite,
                   show_progress, fs_files, fs_dirs, tpc, outcome, handled,
                   result, log, codec_calls, mkdir_calls, convert_calls, fs0>>
    /\ UNCHANGED <<collect_vars, cli_vars, loop_vars>>

\* the steps of the pool threads
Worker ==
    \/ \E i \in Tasks : StartTask(i)
    \/ \E i \in Tasks : ConvertValidate(i)
    \/ \E i \in Tasks : ConvertMkdir(i)
    \/ \E i \in Tasks : ConvertImage(i)

\* the steps of the thread that calls process
Caller ==
    \/ ProcessCall
    \/ \E i \in Tasks : HandleFuture(i)
    \/ ProcessReturn

Next ==
    \/ ProcessCall
    \/ \E i \in Tasks : StartTask(i)
    \/ \E i \in Tasks : ConvertValidate(i)
    \/ \E i \in Tasks : ConvertMkdir(i)
    \/ \E i \in Tasks : ConvertImage(i)
    \/ \E i \in Tasks : HandleFuture(i)
    \/ ProcessReturn

Spec == Init /\ [][Next]_vars

\* every convert call terminates and the calling thread is scheduled
FairSpec == Spec /\ WF_vars(Worker) /\ WF_vars(Caller)

----------------------------------------------------------------------------
(* utils/batch.py: collect_files *)

pics_dir == AsFile(<<"pics">>)

pics_abs == AsFile(Cwd \o <<"pics">>)

sub_dir == AsFile(<<"pics", "sub">>)

p_a == Path(<<"pics">>, "a", ".png")

p_a_abs == Path(Cwd \o <<"pics">>, "a", ".png")

p_l == Path(<<"pics">>, "l", ".png")

p_E == Path(<<"pics">>, "E", ".JPG")

p_b == Path(<<"pics">>, "b", ".bmp")

p_m == Path(<<"pics">>, "m", ".png")

p_g == Path(<<"mix">>, "g", ".Png")

mix_dir == AsFile(<<"mix">>)

\* the paths the caller's list is drawn from: directories and files, relative
\* and absolute, a symbolic link, extensions in upper and in mixed case, an
\* unsupported file, a missing path and a file below an unsearchable directory
CollectArgs ==
    {pics_dir, pics_abs, sub_dir, mix_dir, p_a, p_a_abs, p_l, p_E, p_g, p_b, p_m, x_png}

\* Path.is_file(): a regular file, symbolic links followed
is_file(p, ff) == Resolve(p) \in ff

\* Path.is_dir()
is_dir(p, dd) == Absolute(AsDir(p)) \in dd

\* str.upper() on the supported suffixes
Upper(e) ==
    CASE e = ".png" -> ".PNG"
      [] e = ".jpg" -> ".JPG"
      [] e = ".jpeg" -> ".JPEG"
      [] OTHER -> e

IsPrefix(a, b) == Len(a) <= Len(b) /\ SubSeq(b, 1, Len(a)) = a

\* the directories a glob below d visits: d alone for "*", its subtree for "**/*"
GlobDirs(d, rec, dd) ==
    IF rec THEN {x \in dd : IsPrefix(Absolute(d), x)} ELSE {Absolute(d)} \cap dd

\* PurePath.stem and PurePath.suffix of the directory names of the model
SplitName(name) ==
    IF name = "d.png" THEN <<"d", ".png">> ELSE <<name, "">>

\* a directory as the entry of its parent directory
DirEntry(x) ==
    Path(SubSeq(x, 1, Len(x) - 1), SplitName(x[Len(x)])[1], SplitName(x[Len(x)])[2])

\* the entries of the directories visited, spelled below d as Path.glob yields
\* them: regular files, symbolic links and subdirectories, since the pattern
\* is matched against the names and the type of an entry is not looked at
GlobEntries(d, rec, ff, dd) ==
    {[q EXCEPT !.parent = d \o SubSeq(q.parent, Len(Absolute(d)) + 1, Len(q.parent))] :
        q \in {x \in ff \cup {LinkPath} \cup {DirEntry(y) : y \in dd \ {<<"/">>}} :
                  x.parent \in GlobDirs(d, rec, dd)}}

\* path.glob(f"{pattern}{ext}"): the entries whose name ends with ext, matched
\* case-sensitively
Glob(d, rec, ext, ff, dd) == {e \in GlobEntries(d, rec, ff, dd) : e.suffix = ext}

\* the orders in which the elements of a set can be enumerated
Orderings(S) ==
    {s \in [1..Cardinality(S) -> S] : \A i, j \in DOMAIN s : i # j => s[i] # s[j]}

\* the position of the glob that yields entry e when the set
\* SUPPORTED_INPUT_FORMATS is iterated in the order eo: for each ext the glob
\* of ext, then the glob of ext.upper()
GlobIndex(eo, e) ==
    CHOOSE n \in 1..(2 * Len(eo)) :
        \E k \in DOMAIN eo :
            \/ n = 2 * k - 1 /\ e.suffix = eo[k]
            \/ n = 2 * k /\ e.suffix = Upper(eo[k])

\* collect_files, lines 75-79: the lists the two globs per extension can
\* extend files with, over the iteration orders of the set of extensions and
\* the enumeration orders of the directories
ScanResults(d, rec, ff, dd) ==
    LET M == UNION {Glob(d, rec, ext, ff, dd) \cup Glob(d, rec, Upper(ext), ff, dd) :
                      ext \in SUPPORTED_INPUT_FORMATS}
    IN {s \in Orderings(M) :
          \E eo \in Orderings(SUPPORTED_INPUT_FORMATS) :
              \A i, j \in DOMAIN s : i < j => GlobIndex(eo, s[i]) <= GlobIndex(eo, s[j])}

\* deduplication on the spelled path instead of the resolved one
DedupKey_Spelled(f) == f

\* collect_files, line 88: resolved = f.resolve()
DedupKey(f) == Resolve(f)

\* collect_files, lines 85-91: keep the first occurrence of each resolved path
RECURSIVE UniqueFiles(_, _, _, _)
UniqueFiles(fl, k, seen, acc) ==
    IF k > Len(fl) THEN acc
    ELSE IF DedupKey(fl[k]) \notin seen
      THEN UniqueFiles(fl, k + 1, seen \cup {DedupKey(fl[k])}, Append(acc, fl[k]))
      ELSE UniqueFiles(fl, k + 1, seen, acc)

\* the names of the model in the order of Python's str comparison
NameOrder ==
    << <<"/", "">>, <<"E", ".JPG">>, <<"a", ".jpg">>, <<"a", ".png">>,
       <<"b", ".bmp">>, <<"c", ".png">>, <<"cwd", "">>, <<"d", ".png">>,
       <<"d1", "">>, <<"e", ".jpeg">>, <<"g", ".Png">>, <<"l", ".png">>,
       <<"m", ".bmp">>, <<"m", ".png">>, <<"mix", "">>,
       <<"pics", "">>, <<"priv", "">>, <<"sub", "">>, <<"x", ".png">> >>

NameRank(n) == CHOOSE k \in DOMAIN NameOrder : NameOrder[k] = n

\* PurePath.parts
Parts(p) ==
    [k \in 1..(Len(p.parent) + 1) |->
        IF k <= Len(p.parent) THEN <<p.parent[k], "">> ELSE <<p.stem, p.suffix>>]

\* PurePath.__lt__: the parts compared as lists of strings
PathLess(p, q) ==
    LET a == Parts(p)
        b == Parts(q)
    IN \E k \in DOMAIN b :
          /\ \A m \in 1..(k - 1) : m <= Len(a) /\ a[m] = b[m]
          /\ \/ k = Len(a) + 1
             \/ k <= Len(a) /\ NameRank(a[k]) < NameRank(b[k])

\* x put into the sorted list s, after the elements that are not greater
InsertSorted(s, x) ==
    LET before == {k \in DOMAIN s : ~PathLess(x, s[k])}
        n == IF \E k \in DOMAIN s : PathLess(x, s[k])
               THEN (CHOOSE k \in DOMAIN s :
                        PathLess(x, s[k]) /\ \A m \in 1..(k - 1) : ~PathLess(x, s[m])) - 1
               ELSE Len(s)
    IN SubSeq(s, 1, n) \o <<x>> \o SubSeq(s, n + 1, Len(s))

\* sorted(unique_files): a stable sort
RECURSIVE SortedPaths(_)
SortedPaths(s) ==
    IF Len(s) = 0 THEN <<>>
    ELSE InsertSorted(SortedPaths(SubSeq(s, 1, Len(s) - 1)), s[Len(s)])

\* process is not running
BatchIdle ==
    /\ files = <<>>
    /\ workers_arg = DEFAULT_WORKERS
    /\ max_workers = InitMaxWorkers(DEFAULT_WORKERS)
    /\ output_dir = NoneDir
    /\ overwrite = FALSE
    /\ show_progress = TRUE
    /\ fs_dirs = InitialDirs
    /\ fs_files = InitialFiles
    /\ fs0 = InitialFiles
    /\ pc = "idle"
    /\ tpc = <<>>
    /\ outcome = <<>>
    /\ handled = <<>>
    /\ result = BatchResult(0)
    /\ log = <<>>
    /\ codec_calls = <<>>
    /\ mkdir_calls = <<>>
    /\ convert_calls = <<>>
    /\ upd = {}

\* collect_files is called with a list of paths
InitCollect ==
    /\ BatchIdle
    /\ CliIdle
    /\ c_paths \in UNION {[1..n -> CollectArgs] : n \in 0..MaxPaths}
    /\ recursive \in BOOLEAN
    /\ c_pc = "scan"
    /\ c_k = 1
    /\ c_files = <<>>
    /\ c_warnings = <<>>
    /\ c_ret = <<>>

\* collect_files, lines 64-71: the path is a regular file
ScanFile ==
    /\ c_pc = "scan"
    /\ c_k <= Len(c_paths)
    /\ ~StatRaises(c_paths[c_k])
    /\ is_file(c_paths[c_k], fs_files)
    /\ IF Lower(c_paths[c_k].suffix) \in SUPPORTED_INPUT_FORMATS
         THEN /\ c_files' = Append(c_files, c_paths[c_k])
              /\ UNCHANGED c_warnings
         ELSE /\ c_warnings' = Append(c_warnings, c_paths[c_k])
              /\ UNCHANGED c_files
    /\ c_k' = c_k + 1
    /\ UNCHANGED <<c_paths, recursive, c_pc, c_ret>>
    /\ UNCHANGED <<batch_vars, cli_vars, loop_vars>>

\* collect_files, lines 73-79: the path is a directory
ScanDir ==
    /\ c_pc = "scan"
    /\ c_k <= Len(c_paths)
    /\ ~StatRaises(c_paths[c_k])
    /\ ~is_file(c_paths[c_k], fs_files)
    /\ is_dir(c_paths[c_k], fs_dirs)
    /\ \E found \in ScanResults(AsDir(c_paths[c_k]), recursive, fs_files, fs_dirs) :
          c_files' = c_files \o found
    /\ c_k' = c_k + 1
    /\ UNCHANGED <<c_paths, recursive, c_pc, c_warnings, c_ret>>
    /\ UNCHANGED <<batch_vars, cli_vars, loop_vars>>

\* a missing path that ends the loop over paths
ScanMissing_Abort ==
    /\ c_pc = "scan"
    /\ c_k <= Len(c_paths)
    /\ ~StatRaises(c_paths[c_k])
    /\ ~is_file(c_paths[c_k], fs_files)
    /\ ~is_dir(c_paths[c_k], fs_dirs)
    /\ c_warnings' = Append(c_warnings, c_paths[c_k])
    /\ c_k' = Len(c_paths) + 1
    /\ UNCHANGED <<c_paths, recursive, c_pc, c_files, c_ret>>
    /\ UNCHANGED <<batch_vars, cli_vars, loop_vars>>

\* collect_files, lines 81-82: the path is neither
ScanMissing ==
    /\ c_pc = "scan"
    /\ c_k <= Len(c_paths)
    /\ ~StatRaises(c_paths[c_k])
    /\ ~is_file(c_paths[c_k], fs_files)
    /\ ~is_dir(c_paths[c_k], fs_dirs)
    /\ c_warnings' = Append(c_warnings, c_paths[c_k])
    /\ c_k' = c_k + 1
    /\ UNCHANGED <<c_paths, recursive, c_pc, c_files, c_ret>>
    /\ UNCHANGED <<batch_vars, cli_vars, loop_vars>>

\* collect_files, line 67: path.is_file() raises PermissionError below an
\* unsearchable directory and the exception leaves collect_files
ScanRaises ==
    /\ c_pc = "scan"
    /\ c_k <= Len(c_paths)
    /\ StatRaises(c_paths[c_k])
    /\ c_pc' = "raised"
    /\ UNCHANGED <<c_paths, recursive, c_k, c_files, c_warnings, c_ret>>
    /\ UNCHANGED <<batch_vars, cli_vars, loop_vars>>

\* collect_files, lines 84-93: deduplicate, sort and return
CollectReturn ==
    /\ c_pc = "scan"
    /\ c_k > Len(c_paths)
    /\ c_ret' = SortedPaths(UniqueFiles(c_files, 1, {}, <<>>))
    /\ c_pc' = "returned"
    /\ UNCHANGED <<c_paths, recursive, c_k, c_files, c_warnings>>
    /\ UNCHANGED <<batch_vars, cli_vars, loop_vars>>

NextCollect == ScanFile \/ ScanDir \/ ScanMissing \/ ScanRaises \/ CollectReturn

SpecCollect == InitCollect /\ [][NextCollect]_vars

----------------------------------------------------------------------------
(* process with one worker *)

\* The success flags, by position in the file list, of process run by a pool
\* of one thread: the single thread takes the work items in submission order
\* and runs each convert call to its end before the next one starts.  k is
\* the next position, ff and dd the filesystem left by the calls before it.
RECURSIVE OneWorkerFlags(_, _, _, _, _, _, _)
OneWorkerFlags(fl, dir, ow, ff, dd, k, acc) ==
    IF k > Len(fl) THEN acc
    ELSE
      LET p == fl[k]
          r == ConvertChecks(p, dir, ow, ff)
      IN
      IF StatRaises(p)
        THEN OneWorkerFlags(fl, dir, ow, ff, dd, k + 1, Append(acc, FALSE))
      ELSE IF r.error_message # "go"
        THEN OneWorkerFlags(fl, dir, ow, ff, dd, k + 1, Append(acc, FALSE))
      ELSE IF dir # NoneDir /\ MkdirFails(dir, ff, dd)
        THEN OneWorkerFlags(fl, dir, ow, ff, dd, k + 1, Append(acc, FALSE))
      ELSE IF CodecSucceeds(p)
        THEN OneWorkerFlags(fl, dir, ow, ff \cup {Resolve(r.output_path)},
                            IF dir # NoneDir THEN dd \cup {Absolute(dir)} ELSE dd,
                            k + 1, Append(acc, TRUE))
      ELSE OneWorkerFlags(fl, dir, ow, ff,
                          IF dir # NoneDir THEN dd \cup {Absolute(dir)} ELSE dd,
                          k + 1, Append(acc, FALSE))

\* the success flag process records for task i, once it is finished
SuccessOf(i) == ~outcome[i].raised /\ outcome[i].res.success

----------------------------------------------------------------------------
(* Properties of process *)

\* the number of results of r that satisfy success = ok
CountSuccess(r, ok) == Cardinality({k \in DOMAIN r.results : r.results[k].success = ok})

\* C1: after process returns, total = successful + failed and
\* total = len(files), whatever mix of tasks succeeded, failed or raised; for
\* the empty list the three counters are 0 and success_rate is 0.
C1_TotalIsSum ==
    pc = "returned" =>
        /\ result.total = result.successful + result.failed
        /\ result.total = Len(files)
        /\ Len(files) = 0 =>
              /\ result.total = 0 /\ result.successful = 0 /\ result.failed = 0
              /\ success_rate(result) = 0

\* C1 witness: process returned a batch with a task that raised and a task
\* that succeeded.
C1_Witness ==
    /\ pc = "returned"
    /\ result.successful >= 1
    /\ \E i \in Tasks : outcome[i].raised

\* C2: in the state where process returns no task is pending or running, and
\* when every convert call terminates process eventually returns.
C2_ReturnsAfterAllTasks ==
    /\ [](pc = "returned" => \A i \in Tasks : tpc[i] = "finished")
    /\ <>(pc = "returned")

\* C2 witness: process returned from a batch of two files run by two workers.
C2_Witness ==
    /\ pc = "returned"
    /\ Len(files) >= 2
    /\ max_workers >= 2
    /\ \A i \in Tasks : convert_calls[i] = 1

\* C3: the number of convert calls in progress never exceeds
\* max(1, max_workers); a zero or negative configured count behaves as 1.
C3_BoundedConcurrency ==
    /\ Cardinality(Running) <= (IF workers_arg >= 1 THEN workers_arg ELSE 1)
    /\ workers_arg <= 1 => Cardinality(Running) <= 1

\* C3 witness: with a non-positive configured count one convert call is in
\* progress while another task waits for the pool.
C3_Witness ==
    /\ workers_arg <= 0
    /\ Cardinality(Running) = 1
    /\ Pending # {}

\* C4: a task that raises does not make process raise or abort: its file gets
\* the failure result (success false, no output path, the exception's message),
\* it is counted in failed, and every other file is converted and recorded.
C4_RaisedTaskRecorded ==
    /\ pc # "raised"
    /\ pc = "returned" =>
          /\ Range(handled) = Tasks
          /\ Len(result.results) = Len(handled)
          /\ \A k \in DOMAIN handled :
                LET i == handled[k] IN
                  /\ k \in DOMAIN result.results
                  /\ convert_calls[i] = 1
                  /\ result.results[k] =
                        IF outcome[i].raised
                          THEN ConversionResult(files[i], NonePath, FALSE, outcome[i].exc)
                          ELSE outcome[i].res
          /\ result.failed = CountSuccess(result, FALSE)
          /\ result.failed >= Cardinality({i \in Tasks : outcome[i].raised})

\* C4 witness: process returned a batch in which one task raised and another
\* file was converted.
C4_Witness ==
    /\ pc = "returned"
    /\ \E i, j \in Tasks :
          /\ outcome[i].raised
          /\ ~outcome[j].raised
          /\ outcome[j].res.success
          /\ codec_calls[j] = 1

\* C5: convert never raises: every failure of the filesystem or of the codec
\* comes back as a ConversionResult.
C5_ConvertNeverRaises ==
    \A i \in Tasks : tpc[i] = "finished" => ~outcome[i].raised

\* C6: for the same file list, filesystem and settings, process with N > 1
\* workers records for each file the success flag that process with one worker
\* records, and the same successful and failed counts, under every interleaving.
C6_SameAsOneWorker ==
    pc = "returned" =>
        LET one == OneWorkerFlags(files, output_dir, overwrite, fs0, InitialDirs, 1, <<>>) IN
          /\ \A i \in Tasks : SuccessOf(i) = one[i]
          /\ result.successful = Cardinality({i \in Tasks : one[i]})
          /\ result.failed = Cardinality({i \in Tasks : ~one[i]})

\* with one worker the pool does run the file list as OneWorkerFlags says
OneWorkerAgrees == max_workers = 1 => C6_SameAsOneWorker

\* the number of positions of the sequence s that hold x
Occurrences(s, x) == Cardinality({k \in DOMAIN s : s[k] = x})

\* C7: when process returns, len(results) = len(files) and each entry of the
\* file list is the input path of exactly one result (as many results carry a
\* path as the file list has entries of it), whether the task succeeded,
\* returned a failure or raised.
C7_OneResultPerFile ==
    pc = "returned" =>
        /\ Len(result.results) = Len(files)
        /\ \A p \in InputPaths \cup {NonePath} :
              Occurrences([k \in DOMAIN result.results |-> result.results[k].input_path], p)
                = Occurrences(files, p)

\* C7 witness: process returned a batch of two files of which one task
\* returned a failure and the other raised.
C7_Witness ==
    /\ pc = "returned"
    /\ Len(files) = 2
    /\ \E i, j \in Tasks :
          /\ outcome[i].raised
          /\ ~outcome[j].raised
          /\ ~outcome[j].res.success

\* task i converts an input that exists, is supported and decodes, with an
\* output directory that can be created
Convertible(i) ==
    /\ ~StatRaises(files[i])
    /\ Exists(files[i], fs0)
    /\ is_supported_format(files[i])
    /\ CodecSucceeds(files[i])
    /\ output_dir # NoneDir => ~MkdirFails(output_dir, fs0, InitialDirs)

\* no call before task i derives the output path of task i
FirstForOutput(i) ==
    \A k \in Tasks :
        k < i => get_output_path(files[k], output_dir) # get_output_path(files[i], output_dir)

\* C8: two convert calls in sequence (one worker) on the same convertible
\* input: with overwrite both succeed; without overwrite the first succeeds
\* (its output did not exist) and the second returns the 'Output exists'
\* failure without calling mkdir or the codec.
C8_ConvertTwice ==
    \A i, j \in Tasks :
        ( /\ max_workers = 1
          /\ i < j
          /\ files[i] = files[j]
          /\ Convertible(i)
          /\ tpc[i] = "finished"
          /\ tpc[j] = "finished" )
        =>
          IF overwrite
            THEN /\ outcome[i] = Returned(ConversionResult(files[i],
                        get_output_path(files[i], output_dir), TRUE, NoneMsg))
                 /\ outcome[j] = outcome[i]
                 /\ codec_calls[i] = 1
                 /\ codec_calls[j] = 1
            ELSE /\ ( /\ FirstForOutput(i)
                      /\ ~Exists(get_output_path(files[i], output_dir), fs0) )
                    => SuccessOf(i)
                 /\ outcome[j].res.success = FALSE
                 /\ SuccessOf(i) =>
                       /\ outcome[j] = Returned(ConversionResult(files[j],
                              get_output_path(files[j], output_dir), FALSE, MsgOutputExists))
                       /\ codec_calls[j] = 0
                       /\ mkdir_calls[j] = 0

\* C8 witness: without overwrite, the first of two calls on the same input
\* succeeded and the second has finished.
C8_Witness ==
    \E i, j \in Tasks :
        /\ max_workers = 1
        /\ ~overwrite
        /\ i < j
        /\ files[i] = files[j]
        /\ SuccessOf(i)
        /\ tpc[j] = "finished"
        /\ outcome[j].res.error_message = MsgOutputExists

\* task i has gone past the three checks of convert
PastChecks(i) == mkdir_calls[i] > 0 \/ codec_calls[i] > 0 \/ tpc[i] \in {"mkdir", "codec"}

\* C9: convert decides in sequence, first match winning: (1) a missing input
\* gives 'File not found' without output path, also when its extension is
\* unsupported; (2) an existing input with an unsupported extension gives
\* 'Unsupported format' without output path; (3) an existing output without
\* overwrite gives 'Output exists' with the output path; the output directory
\* is created and the codec invoked only when none of (1)-(3) matches.
C9_DecisionSequence ==
    /\ [](\A i \in Tasks :
            LET p == files[i]
                out == get_output_path(p, output_dir)
            IN
            ~StatRaises(p) =>
              /\ (tpc[i] = "finished" /\ ~Exists(p, fs0)) =>
                    /\ outcome[i] = Returned(ConversionResult(p, NonePath, FALSE, MsgNotFound))
                    /\ ~PastChecks(i)
              /\ (tpc[i] = "finished" /\ Exists(p, fs0) /\ ~is_supported_format(p)) =>
                    /\ outcome[i] = Returned(ConversionResult(p, NonePath, FALSE, MsgUnsupported))
                    /\ ~PastChecks(i)
              /\ (tpc[i] = "finished" /\ Exists(p, fs0) /\ is_supported_format(p)
                     /\ Exists(out, fs0) /\ ~overwrite) =>
                    /\ outcome[i] = Returned(ConversionResult(p, out, FALSE, MsgOutputExists))
                    /\ ~PastChecks(i)
              /\ (tpc[i] = "finished" /\ ~outcome[i].raised
                     /\ outcome[i].res.error_message = MsgOutputExists) =>
                    /\ outcome[i].res.output_path = out
                    /\ Exists(out, fs_files) /\ ~overwrite
                    /\ ~PastChecks(i)
              /\ PastChecks(i) => Exists(p, fs0) /\ is_supported_format(p))
    /\ [][\A i \in Tasks :
            (~PastChecks(i) /\ PastChecks(i)') =>
                /\ Exists(files[i], fs_files)
                /\ is_supported_format(files[i])
                /\ overwrite \/ ~Exists(get_output_path(files[i], output_dir), fs_files)]_vars
    /\ [][fs_dirs' # fs_dirs =>
            \E i \in Tasks : PastChecks(i) /\ mkdir_calls'[i] = mkdir_calls[i] + 1]_vars

\* C9 witness: in one batch a missing input with an unsupported extension got
\* 'File not found' and another task went on to the codec.
C9_Witness ==
    \E i, j \in Tasks :
        /\ tpc[i] = "finished"
        /\ files[i] = m_bmp
        /\ outcome[i].res.error_message = MsgNotFound
        /\ codec_calls[j] = 1

----------------------------------------------------------------------------
(* Properties of collect_files *)

\* C10: collect_files returns no duplicates: no two entries of the returned
\* list resolve to the same canonical path, whatever files, directories,
\* repetitions, symbolic links and relative or absolute spellings it is given.
C10_NoDuplicates ==
    c_pc = "returned" =>
        \A i, j \in DOMAIN c_ret : i # j => Resolve(c_ret[i]) # Resolve(c_ret[j])

\* C10 witness: collect_files returned after it had gathered two different
\* spellings of one file, and kept one of them.
C10_Witness ==
    /\ c_pc = "returned"
    /\ Len(c_ret) >= 2
    /\ \E i, j \in DOMAIN c_files :
          /\ c_files[i] # c_files[j]
          /\ Resolve(c_files[i]) = Resolve(c_files[j])

----------------------------------------------------------------------------
(* collect_files as a function of its arguments *)

\* collect_files, lines 64-82: the lists files can hold after the loop over
\* paths[k..], started from the lists of acc, over every iteration order of
\* the extensions and every enumeration order of the directories; no list
\* when a stat raises
RECURSIVE ScanLists(_, _, _, _, _, _)
ScanLists(paths, rec, ff, dd, k, acc) ==
    IF k > Len(paths) THEN acc
    ELSE
      LET p == paths[k] IN
      IF StatRaises(p) THEN {}
      ELSE IF is_file(p, ff)
        THEN IF Lower(p.suffix) \in SUPPORTED_INPUT_FORMATS
               THEN ScanLists(paths, rec, ff, dd, k + 1, {Append(a, p) : a \in acc})
               ELSE ScanLists(paths, rec, ff, dd, k + 1, acc)
      ELSE IF is_dir(p, dd)
        THEN ScanLists(paths, rec, ff, dd, k + 1,
                       {a \o found : a \in acc,
                                     found \in ScanResults(AsDir(p), rec, ff, dd)})
      ELSE ScanLists(paths, rec, ff, dd, k + 1, acc)

\* collect_files, lines 62-93: the lists one call can return on one filesystem
CollectOutcomes(paths, rec, ff, dd) ==
    {SortedPaths(UniqueFiles(fl, 1, {}, <<>>)) :
        fl \in ScanLists(paths, rec, ff, dd, 1, {<<>>})}

\* the list is strictly ascending in the order of sorted()
IsSorted(s) == \A i, j \in DOMAIN s : i < j => PathLess(s[i], s[j])

----------------------------------------------------------------------------
(* Claims about collect_files, continued *)

\* C11: the list collect_files returns is sorted ascending by path and is the
\* only list the call can return on this filesystem for this list of paths,
\* whatever the order in which the directories are enumerated.
C11_OrderIndependent ==
    c_pc = "returned" =>
        /\ IsSorted(c_ret)
        /\ CollectOutcomes(c_paths, recursive, fs_files, fs_dirs) = {c_ret}

\* the returned list is sorted and is one of the lists of CollectOutcomes
CollectAgrees ==
    c_pc = "returned" =>
        /\ IsSorted(c_ret)
        /\ c_ret \in CollectOutcomes(c_paths, recursive, fs_files, fs_dirs)

----------------------------------------------------------------------------
(* cli/app.py: main *)

\* the paths given on the command line: files that convert, a file that does
\* not decode, an unsupported file, a missing path and a directory
MainInputs == {a_png, a_jpg, c_png, b_bmp, p_m, sub_dir}

\* argparse ends the program itself: SystemExit(0) after --version or --help,
\* SystemExit(2) after a usage error
ParseExits == {[kind |-> "version"], [kind |-> "usage"]}

\* the namespaces parse_args returns: input is nargs="+"
ParsedArgs ==
    [kind : {"run"},
     input : UNION {[1..n -> MainInputs] : n \in 1..MaxPaths},
     output : {NoneDir} \cup OutDirs,
     overwrite : BOOLEAN,
     parallel : {1, DEFAULT_WORKERS},
     no_recursive : BOOLEAN,
     quiet : {FALSE},
     quality : {DEFAULT_QUALITY}]

\* an exit code that tells total failure only
ExitCodeOf_NoPartial(r) ==
    IF r.failed > 0 /\ r.successful = 0 THEN 1 ELSE 0

\* main, lines 200-205: the exit code of a run that processed files
ExitCodeOf(r) ==
    IF r.failed > 0 /\ r.successful = 0 THEN 1
    ELSE IF r.failed > 0 THEN 2
    ELSE 0

\* main is called with a command line
InitMain ==
    /\ BatchIdle
    /\ CollectIdle
    /\ m_pc = "parse"
    /\ m_args \in ParseExits \cup ParsedArgs
    /\ exit_code = NoExit
    /\ quality_arg = DEFAULT_QUALITY
    /\ quality = validate_quality(DEFAULT_QUALITY)

\* main, lines 156-159: parse_args raises SystemExit and main returns its code
MainParseExit ==
    /\ m_pc = "parse"
    /\ m_args \in ParseExits
    /\ exit_code' = IF m_args.kind = "version" THEN 0 ELSE 2
    /\ m_pc' = "exit"
    /\ UNCHANGED <<m_args, quality_arg, quality>>
    /\ UNCHANGED <<batch_vars, collect_vars, loop_vars>>

\* main, lines 172-179: build the converter and the processor, call
\* collect_files
MainCollect ==
    /\ m_pc = "parse"
    /\ m_args \in ParsedArgs
    /\ quality_arg' = m_args.quality
    /\ quality' = validate_quality(m_args.quality)
    /\ workers_arg' = m_args.parallel
    /\ max_workers' = InitMaxWorkers(m_args.parallel)
    /\ c_paths' = m_args.input
    /\ recursive' = ~m_args.no_recursive
    /\ c_pc' = "scan"
    /\ m_pc' = "collect"
    /\ UNCHANGED <<m_args, exit_code>>
    /\ UNCHANGED loop_vars
    /\ UNCHANGED <<c_k, c_files, c_warnings, c_ret>>
    /\ UNCHANGED <<files, output_dir, overwrite, show_progress, fs_files, fs_dirs,
                   pc, tpc, outcome, handled, result, log, codec_calls,
                   mkdir_calls, convert_calls, fs0>>

\* main, lines 181-184: no file was collected
MainNoFiles ==
    /\ m_pc = "collect"
    /\ c_pc = "returned"
    /\ c_ret = <<>>
    /\ exit_code' = 1
    /\ m_pc' = "exit"
    /\ UNCHANGED <<m_args, quality_arg, quality>>
    /\ UNCHANGED <<batch_vars, collect_vars, loop_vars>>

\* main, lines 186-195: process is called on the collected files
MainProcess ==
    /\ m_pc = "collect"
    /\ c_pc = "returned"
    /\ c_ret # <<>>
    /\ files' = c_ret
    /\ output_dir' = m_args.output
    /\ overwrite' = m_args.overwrite
    /\ show_progress' = ~m_args.quiet
    /\ pc' = "start"
    /\ tpc' = [i \in DOMAIN c_ret |-> "pending"]
    /\ outcome' = [i \in DOMAIN c_ret |-> NoOutcome]
    /\ codec_calls' = [i \in DOMAIN c_ret |-> 0]
    /\ mkdir_calls' = [i \in DOMAIN c_ret |-> 0]
    /\ convert_calls' = [i \in DOMAIN c_ret |-> 0]
    /\ fs0' = fs_files
    /\ m_pc' = "process"
    /\ UNCHANGED <<workers_arg, max_workers, fs_files, fs_dirs, handled, result, log>>
    /\ UNCHANGED <<m_args, exit_code, quality_arg, quality>>
    /\ UNCHANGED <<collect_vars, loop_vars>>

\* main, lines 197-205: process returned; the exit code tells the outcome
MainExit ==
    /\ m_pc = "process"
    /\ pc = "returned"
    /\ exit_code' = ExitCodeOf(result)
    /\ m_pc' = "exit"
    /\ UNCHANGED <<m_args, quality_arg, quality>>
    /\ UNCHANGED <<batch_vars, collect_vars, loop_vars>>

NextMain ==
    \/ MainParseExit
    \/ MainCollect
    \/ ScanFile
    \/ ScanDir
    \/ ScanMissing
    \/ CollectReturn
    \/ MainNoFiles
    \/ MainProcess
    \/ ProcessCall
    \/ \E i \in Tasks : StartTask(i)
    \/ \E i \in Tasks : ConvertValidate(i)
    \/ \E i \in Tasks : ConvertMkdir(i)
    \/ \E i \in Tasks : ConvertImage(i)
    \/ \E i \in Tasks : HandleFuture(i)
    \/ ProcessReturn
    \/ MainExit

SpecMain == InitMain /\ [][NextMain]_vars

----------------------------------------------------------------------------
(* Claims about main *)

\* the exit code of a returned main tells the outcome: 1 when collection
\* yielded no file (and process was never invoked) or when some conversion
\* failed and none succeeded, 2 when some succeeded and some failed, 0 exactly
\* when at least one file was processed and none failed
ExitCodeTellsOutcome ==
    /\ (c_pc = "returned" /\ c_ret = <<>>) =>
          exit_code = 1 /\ pc = "idle" /\ convert_calls = <<>>
    /\ (pc = "returned" /\ result.failed > 0 /\ result.successful = 0) =>
          exit_code = 1
    /\ (pc = "returned" /\ result.failed > 0 /\ result.successful > 0) =>
          exit_code = 2
    /\ exit_code = 0 <=>
          (pc = "returned" /\ result.total >= 1 /\ result.failed = 0)

\* C12, as stated: every return of main has the exit code of its outcome.
C12_ExitCode == m_pc = "exit" => ExitCodeTellsOutcome

\* C12, amended: every return of main on a command line that parses (main got
\* to collect_files) has the exit code of its outcome; --version and --help
\* return 0 and a usage error returns 2 with no file processed.
C12_ExitCodeOfRun ==
    (m_pc = "exit" /\ m_args \in ParsedArgs) => ExitCodeTellsOutcome

\* C12 witness: main returned 2 after a batch with a success and a failure.
C12_Witness ==
    /\ m_pc = "exit"
    /\ m_args \in ParsedArgs
    /\ exit_code = 2
    /\ result.successful >= 1
    /\ result.failed >= 1

\* main returned 1 without calling process: nothing was collected
C12_NoFiles == m_pc = "exit" /\ exit_code = 1 /\ pc = "idle" /\ m_args \in ParsedArgs

\* main returned 1 after a batch in which every conversion failed
C12_AllFailed == m_pc = "exit" /\ exit_code = 1 /\ pc = "returned" /\ result.failed >= 2

\* main returned 0 after a batch without a failure
C12_AllSucceeded == m_pc = "exit" /\ exit_code = 0 /\ pc = "returned" /\ result.successful >= 2

----------------------------------------------------------------------------
(* Claims about collect_files: discovery errors and the inclusion rule *)

\* the path names nothing: neither a regular file nor a directory
MissingPath(p, ff, dd) == ~StatRaises(p) /\ ~is_file(p, ff) /\ ~is_dir(p, dd)

\* the path names a regular file whose extension is not supported
UnsupportedFile(p, ff) ==
    ~StatRaises(p) /\ is_file(p, ff) /\ Lower(p.suffix) \notin SUPPORTED_INPUT_FORMATS

\* collect_files, lines 67-79: the files one path of the list stands for, by
\* resolved path: the file itself, or what the globs of a directory match
Expansion(p, rec, ff, dd) ==
    IF is_file(p, ff) THEN {Resolve(p)}
    ELSE {Resolve(e) : e \in UNION {Glob(AsDir(p), rec, ext, ff, dd)
                                     \cup Glob(AsDir(p), rec, Upper(ext), ff, dd) :
                                        ext \in SUPPORTED_INPUT_FORMATS}}

\* C13: a path that is missing or names an unsupported regular file never makes
\* collect_files raise; when the call returns, each such path has a warning
\* and is not in the result, and every file the other paths stand for is in
\* the result (by resolved path).
C13_DiscoveryErrors ==
    /\ c_pc = "raised" =>
          /\ ~MissingPath(c_paths[c_k], fs_files, fs_dirs)
          /\ ~UnsupportedFile(c_paths[c_k], fs_files)
    /\ c_pc = "returned" =>
          \A k \in DOMAIN c_paths :
              LET p == c_paths[k] IN
                IF MissingPath(p, fs_files, fs_dirs) \/ UnsupportedFile(p, fs_files)
                  THEN p \in Range(c_warnings) /\ p \notin Range(c_ret)
                  ELSE Expansion(p, recursive, fs_files, fs_dirs)
                          \subseteq {Resolve(f) : f \in Range(c_ret)}

\* C13 witness: collect_files returned files found after a missing path or an
\* unsupported file was dropped from the list.
C13_Witness ==
    /\ c_pc = "returned"
    /\ Len(c_paths) >= 2
    /\ MissingPath(c_paths[1], fs_files, fs_dirs) \/ UnsupportedFile(c_paths[1], fs_files)
    /\ is_dir(c_paths[2], fs_dirs)
    /\ c_warnings = <<c_paths[1]>>
    /\ c_ret # <<>>

\* the regular files (symbolic links followed) a scan of directory d has to
\* include: the entries directly inside d, or of its whole subtree when rec,
\* that are files with a supported extension all in lower or all in upper case
FilesToInclude(d, rec, ff, dd) ==
    {Resolve(e) : e \in {x \in GlobEntries(d, rec, ff, dd) :
                           /\ is_file(x, ff)
                           /\ \E ext \in SUPPORTED_INPUT_FORMATS :
                                 x.suffix = ext \/ x.suffix = Upper(ext)}}

\* C14: the files collect_files returns are, by resolved path, the regular
\* files given directly whose lower-cased extension is supported, and the
\* entries of the scanned directories that are files with a supported
\* extension all in lower or all in upper case, of the directory itself when
\* recursive is false and of its subtree when it is true.
C14_InclusionRule ==
    c_pc = "returned" =>
        {Resolve(f) : f \in Range(c_ret)} =
            UNION {IF is_file(c_paths[k], fs_files)
                     THEN IF Lower(c_paths[k].suffix) \in SUPPORTED_INPUT_FORMATS
                            THEN {Resolve(c_paths[k])} ELSE {}
                   ELSE IF is_dir(c_paths[k], fs_dirs)
                     THEN FilesToInclude(AsDir(c_paths[k]), recursive, fs_files, fs_dirs)
                   ELSE {} : k \in DOMAIN c_paths}

\* the rule the code follows: every entry whose name matches is included,
\* regular file or not
InclusionByName ==
    c_pc = "returned" =>
        {Resolve(f) : f \in Range(c_ret)} =
            UNION {IF UnsupportedFile(c_paths[k], fs_files) THEN {}
                   ELSE Expansion(c_paths[k], recursive, fs_files, fs_dirs) :
                      k \in DOMAIN c_paths}

----------------------------------------------------------------------------
(* Claims about process, continued *)

\* C15: no retries: during one process call convert is invoked at most once
\* for each entry of the file list, exactly once by the time the entry's task
\* is finished and process returns, whether the invocation succeeded, returned
\* a failure or raised; a finished task is never started again.
C15_NoRetries ==
    /\ [](\A i \in Tasks :
            /\ convert_calls[i] <= 1
            /\ codec_calls[i] <= 1
            /\ tpc[i] = "pending" <=> convert_calls[i] = 0
            /\ pc = "returned" => convert_calls[i] = 1)
    /\ [][\A i \in Tasks :
            tpc[i] = "finished" =>
                /\ tpc'[i] = "finished"
                /\ convert_calls'[i] = convert_calls[i]
                /\ outcome'[i] = outcome[i]]_vars

\* C15 witness: process returned a batch in which one convert call raised and
\* another returned a failure, each made once.
C15_Witness ==
    /\ pc = "returned"
    /\ \E i, j \in Tasks :
          /\ outcome[i].raised
          /\ ~outcome[j].raised /\ ~outcome[j].res.success
          /\ convert_calls[i] = 1 /\ convert_calls[j] = 1

----------------------------------------------------------------------------
(* core/converter.py: the quality of a converter *)

\* the values of quality a caller passes
QualityArgs == (MIN_QUALITY - MaxExcess)..(MAX_QUALITY + MaxExcess)

\* a program holds the default converter
InitQuality ==
    /\ BatchIdle
    /\ CollectIdle
    /\ CliIdle

\* ImageConverter(quality=q) is constructed, lines 42-48, a BatchProcessor is
\* built on it and process is called on one file
NewConverter ==
    /\ pc = "idle"
    /\ \E q \in QualityArgs :
          /\ quality_arg' = q
          /\ quality' = validate_quality(q)
    /\ files' = <<a_png>>
    /\ output_dir' \in {NoneDir, <<"out">>}
    /\ pc' = "start"
    /\ tpc' = <<"pending">>
    /\ outcome' = <<NoOutcome>>
    /\ codec_calls' = <<0>>
    /\ mkdir_calls' = <<0>>
    /\ convert_calls' = <<0>>
    /\ UNCHANGED <<workers_arg, max_workers, overwrite, show_progress, fs_files,
                   fs_dirs, handled, result, log, fs0>>
    /\ UNCHANGED <<m_pc, m_args, exit_code>>
    /\ UNCHANGED <<collect_vars, loop_vars>>

NextQuality == NewConverter \/ Next

SpecQuality == InitQuality /\ [][NextQuality]_vars

\* C16: the quality of a converter built with q is min(100, max(0, q)) and
\* lies in 0..100; built with q > 100 it is the quality of a converter built
\* with 100, built with q < 0 that of one built with 0; no step of the
\* conversions made with the converter changes it.
C16_QualityClamped ==
    /\ [](/\ quality = Min(MAX_QUALITY, Max(MIN_QUALITY, quality_arg))
          /\ quality \in MIN_QUALITY..MAX_QUALITY
          /\ quality_arg > MAX_QUALITY => quality = validate_quality(MAX_QUALITY)
          /\ quality_arg < MIN_QUALITY => quality = validate_quality(MIN_QUALITY)
          /\ quality_arg \in MIN_QUALITY..MAX_QUALITY => quality = quality_arg)
    /\ [][pc # "idle" => quality' = quality /\ quality_arg' = quality_arg]_vars

\* C16 witness: a converter built with a quality above 100 made a conversion
\* and its quality is 100.
C16_Witness ==
    /\ pc = "returned"
    /\ quality_arg > MAX_QUALITY
    /\ quality = MAX_QUALITY
    /\ codec_calls = <<1>>

----------------------------------------------------------------------------
(* Claims about get_output_path *)

\* the output path of p has the stem of p, the suffix .avif in place of p's
\* last suffix, and the parent d, or the parent of p when d is None
OutputPathOf(p, d, out) ==
    /\ out.parent = IF d = NoneDir THEN p.parent ELSE d
    /\ out.stem = p.stem
    /\ out.suffix = OUTPUT_FORMAT

\* C17: get_output_path(p, None) has the parent of p and get_output_path(p, d)
\* the parent d, with the name of p and .avif for its last extension, for
\* every path and directory of the model and in every result process records
\* with an output path; the convert step that derives it leaves the
\* filesystem as it is.
C17_OutputPath ==
    /\ [](/\ \A p \in InputPaths \cup CollectArgs, d \in OutDirs \cup {NoneDir} :
                OutputPathOf(p, d, get_output_path(p, d))
          /\ \A i \in Tasks :
                (tpc[i] = "finished" /\ ~outcome[i].raised
                    /\ outcome[i].res.output_path # NonePath) =>
                   OutputPathOf(files[i], output_dir, outcome[i].res.output_path))
    /\ [][\A i \in Tasks :
            (tpc[i] = "convert" /\ tpc'[i] # "convert") =>
                fs_files' = fs_files /\ fs_dirs' = fs_dirs]_vars

\* C17 witness: a result carries an output path in the output directory, which
\* is not the directory of its input.
C17_Witness ==
    \E i \in Tasks :
        /\ tpc[i] = "finished"
        /\ ~outcome[i].raised
        /\ output_dir # NoneDir
        /\ outcome[i].res.output_path.parent = output_dir
        /\ outcome[i].res.output_path.parent # files[i].parent
        /\ outcome[i].res.output_path.stem = files[i].stem

----------------------------------------------------------------------------
(* process: the collection loop statement by statement *)

\* the futures whose loop iteration has begun and not ended
Updating == {u.i : u \in upd}

\* loop iterations that begin while another one is updating result, as if
\* each pool thread recorded its own result without a lock
LoopBegin_Unserialized(i) ==
    /\ pc = "as_completed"
    /\ tpc[i] = "finished"
    /\ i \notin Range(handled)
    /\ i \notin Updating
    /\ LET o == outcome[i] IN
         IF ~o.raised
           THEN /\ result' = [result EXCEPT !.results = Append(@, o.res)]
                /\ upd' = upd \cup {[i |-> i, n |-> IF o.res.success
                                                       THEN result.successful
                                                       ELSE result.failed]}
           ELSE /\ result' = result
                /\ upd' = upd \cup {[i |-> i, n |-> result.failed]}
    /\ UNCHANGED <<files, workers_arg, max_workers, output_dir, overwrite,
                   show_progress, fs_files, fs_dirs, pc, tpc, outcome, handled,
                   log, codec_calls, mkdir_calls, convert_calls, fs0>>
    /\ UNCHANGED <<collect_vars, cli_vars>>

\* process, lines 135-143 and 157-158: as_completed yields the future of task
\* i to the thread that called process, which is in no other iteration; the
\* try branch appends the result and reads the counter it is going to
\* increment, the except branch reads result.failed
LoopBegin(i) ==
    /\ pc = "as_completed"
    /\ tpc[i] = "finished"
    /\ i \notin Range(handled)
    /\ upd = {}
    /\ LET o == outcome[i] IN
         IF ~o.raised
           THEN /\ result' = [result EXCEPT !.results = Append(@, o.res)]
                /\ upd' = upd \cup {[i |-> i, n |-> IF o.res.success
                                                       THEN result.successful
                                                       ELSE result.failed]}
           ELSE /\ result' = result
                /\ upd' = upd \cup {[i |-> i, n |-> result.failed]}
    /\ UNCHANGED <<files, workers_arg, max_workers, output_dir, overwrite,
                   show_progress, fs_files, fs_dirs, pc, tpc, outcome, handled,
                   log, codec_calls, mkdir_calls, convert_calls, fs0>>
    /\ UNCHANGED <<collect_vars, cli_vars>>

\* process, lines 143-155 and 158-168: the counter is written back, the
\* except branch appends its result, the progress line is logged and the
\* iteration ends
LoopEnd(i) ==
    /\ pc = "as_completed"
    /\ \E u \in upd :
          /\ u.i = i
          /\ upd' = upd \ {u}
          /\ LET o == outcome[i]
                 k == ProgressIndex(i, handled)
             IN
             IF ~o.raised
               THEN /\ result' = [result EXCEPT
                          !.successful = IF o.res.success THEN u.n + 1 ELSE @,
                          !.failed = IF o.res.success THEN @ ELSE u.n + 1]
                    /\ log' = IF show_progress
                         THEN Append(log, ProgressLine(k, Len(files), o.res.success,
                                                       o.res.input_path,
                                                       o.res.error_message))
                         ELSE log
               ELSE /\ result' = [result EXCEPT
                          !.failed = u.n + 1,
                          !.results = Append(@, ConversionResult(files[i], NonePath,
                                                                 FALSE, o.exc))]
                    /\ log' = IF show_progress
                         THEN Append(log, ProgressLine(k, Len(files), FALSE,
                                                       files[i], o.exc))
                         ELSE log
    /\ handled' = Append(handled, i)
    /\ UNCHANGED <<files, workers_arg, max_workers, output_dir, overwrite,
                   show_progress, fs_files, fs_dirs, pc, tpc, outcome,
                   codec_calls, mkdir_calls, convert_calls, fs0>>
    /\ UNCHANGED <<collect_vars, cli_vars>>

NextLoop ==
    \/ ProcessCall
    \/ \E i \in Tasks : StartTask(i)
    \/ \E i \in Tasks : ConvertValidate(i)
    \/ \E i \in Tasks : ConvertMkdir(i)
    \/ \E i \in Tasks : ConvertImage(i)
    \/ \E i \in Tasks : LoopBegin(i)
    \/ \E i \in Tasks : LoopEnd(i)
    \/ ProcessReturn

SpecLoop == Init /\ [][NextLoop]_vars

----------------------------------------------------------------------------
(* Claims about the shared BatchResult *)

\* C18: with overwrite = false, of the tasks of one batch whose different
\* input files derive the same output path at most one invokes the codec on
\* it, and the others return the 'Output exists' failure, under every
\* interleaving.
C18_OneWriterPerOutput ==
    ~overwrite =>
        \A i, j \in Tasks :
            (/\ files[i] # files[j]
             /\ Resolve(get_output_path(files[i], output_dir))
                  = Resolve(get_output_path(files[j], output_dir))
             /\ codec_calls[i] >= 1)
            => /\ codec_calls[j] = 0
               /\ (tpc[j] = "finished" /\ Exists(files[j], fs0)
                     /\ is_supported_format(files[j]) /\ ~outcome[j].raised)
                    => outcome[j].res.error_message = MsgOutputExists

\* C19: the updates of the shared BatchResult are serialized and none is lost:
\* at most one loop iteration is updating result at any time; every step
\* changes successful + failed by at most one, decreases neither and appends
\* at most one result; between two iterations successful + failed is the
\* number of futures handled and of results; and when process returns the
\* counters are the numbers of tasks that succeeded and that failed, with one
\* result per task.
C19_SerializedUpdates ==
    /\ [](/\ Cardinality(Updating) <= 1
          /\ upd = {} =>
                /\ result.successful + result.failed = Len(handled)
                /\ Len(result.results) = Len(handled)
          /\ pc = "returned" =>
                /\ result.successful = Cardinality({i \in Tasks : SuccessOf(i)})
                /\ result.failed = Cardinality({i \in Tasks : ~SuccessOf(i)})
                /\ Len(result.results) = Len(files))
    /\ [][/\ result'.successful >= result.successful
          /\ result'.failed >= result.failed
          /\ (result'.successful + result'.failed)
                - (result.successful + result.failed) \in {0, 1}
          /\ Len(result'.results) - Len(result.results) \in {0, 1}
          /\ \A i \in Tasks :
                (i \in Updating /\ i \notin Updating') =>
                    /\ result'.successful + result'.failed
                          = result.successful + result.failed + 1
                    /\ Len(result'.results) = Len(handled')]_vars

\* C19 witness: process returned after a pool of two or more threads ran two
\* tasks, the loop handled the second task before the first, and one success
\* and one failure were recorded.
C19_Witness ==
    /\ pc = "returned"
    /\ Len(files) = 2
    /\ max_workers >= 2
    /\ result.successful = 1
    /\ result.failed = 1
    /\ SuccessOf(handled[1]) # SuccessOf(handled[2])
    /\ handled = <<2, 1>>

\* C20: at every point of process between the handling of two completed
\* tasks, successful + failed = len(results) <= total, successful is the
\* number of collected results with success = true and failed the number of
\* the others, and no step decreases a counter.
C20_RunningCounts ==
    /\ [](pc \in {"as_completed", "returned"} =>
            /\ result.successful + result.failed = Len(result.results)
            /\ Len(result.results) <= result.total
            /\ result.total = Len(files)
            /\ result.successful = CountSuccess(result, TRUE)
            /\ result.failed = CountSuccess(result, FALSE))
    /\ [][/\ result'.successful >= result.successful
          /\ result'.failed >= result.failed]_vars

\* C20 witness: one of two tasks has been handled, as a failure, and the
\* other has not: successful + failed = 1 < total = 2.
C20_Witness ==
    /\ pc = "as_completed"
    /\ Len(files) = 2
    /\ Len(handled) = 1
    /\ result.failed = 1
    /\ result.successful + result.failed = 1
    /\ result.total = 2

----------------------------------------------------------------------------
(* process with and without progress lines *)

\* the files of the batches: one that converts, one the codec rejects and one
\* whose convert call raises
ProgressInputs == {a_png, c_png, x_png}

\* process is called with show_progress set or not
InitProgress ==
    /\ files \in UNION {[1..n -> ProgressInputs] : n \in 0..MaxFiles}
    /\ workers_arg \in 1..MaxWorkersArg
    /\ max_workers = InitMaxWorkers(workers_arg)
    /\ output_dir = NoneDir
    /\ overwrite = TRUE
    /\ show_progress \in BOOLEAN
    /\ fs_dirs = InitialDirs
    /\ fs_files = InitialFiles
    /\ fs0 = fs_files
    /\ pc = "start"
    /\ tpc = [i \in DOMAIN files |-> "pending"]
    /\ outcome = [i \in DOMAIN files |-> NoOutcome]
    /\ handled = <<>>
    /\ result = BatchResult(0)
    /\ log = <<>>
    /\ codec_calls = [i \in DOMAIN files |-> 0]
    /\ mkdir_calls = [i \in DOMAIN files |-> 0]
    /\ convert_calls = [i \in DOMAIN files |-> 0]
    /\ upd = {}
    /\ CollectIdle
    /\ CliIdle

NextProgress ==
    \/ ProcessCall
    \/ \E i \in Tasks : StartTask(i)
    \/ \E i \in Tasks : ConvertValidate(i)
    \/ \E i \in Tasks : ConvertImage(i)
    \/ \E i \in Tasks : HandleFuture(i)
    \/ ProcessReturn

SpecProgress == InitProgress /\ [][NextProgress]_vars

\* process, lines 135-168 without the progress lines: the BatchResult after
\* the futures h[k..] are handled in this order, starting from r
RECURSIVE ResultAfter(_, _, _)
ResultAfter(h, k, r) ==
    IF k > Len(h) THEN r
    ELSE ResultAfter(h, k + 1,
            IF outcome[h[k]].raised
              THEN RecordException(r, files[h[k]], outcome[h[k]].exc)
              ELSE RecordResult(r, outcome[h[k]].res))

\* C21: with show_progress set, the progress lines are one per handled task in
\* completion order, line k carrying the index k, N = len(files) and the file
\* and status of the k-th task handled, so that on return the indices are
\* 1..N whatever the positions of the tasks in the list; without it no line is
\* emitted; in both cases the BatchResult is the one the completion order and
\* the outcomes of the tasks determine.
C21_ProgressLines ==
    /\ [](pc \in {"as_completed", "returned"} =>
            /\ show_progress =>
                  /\ Len(log) = Len(handled)
                  /\ \A k \in DOMAIN log :
                        /\ log[k].i = k
                        /\ log[k].n = Len(files)
                        /\ log[k].name = files[handled[k]]
                        /\ log[k].ok = result.results[k].success
            /\ ~show_progress => log = <<>>
            /\ result = ResultAfter(handled, 1, BatchResult(Len(files)))
            /\ (pc = "returned" /\ show_progress) =>
                  {log[k].i : k \in DOMAIN log} = 1..Len(files))
    /\ [][Len(log') - Len(log) \in {0, 1}
          /\ (Len(log') = Len(log) + 1 => Len(handled') = Len(handled) + 1)
          /\ SubSeq(log', 1, Len(log)) = log]_vars

\* C21 witness: process returned with progress lines 1 and 2 of 2, the first
\* of them for the second file of the list.
C21_Witness ==
    /\ pc = "returned"
    /\ show_progress
    /\ handled = <<2, 1>>
    /\ Len(log) = 2
    /\ log[1].i = 1 /\ log[1].name = files[2]
    /\ log[2].i = 2 /\ log[2].name = files[1]
    /\ files[1] # files[2]

\* process returned without a progress line and with a result per file
C21_Quiet ==
    /\ pc = "returned"
    /\ ~show_progress
    /\ log = <<>>
    /\ Len(result.results) = 2

----------------------------------------------------------------------------
(* Claims about the results and the effects of convert *)

\* the result is one of the three early returns of convert
EarlyReturn(o) ==
    /\ ~o.raised
    /\ o.res.error_message \in {MsgNotFound, MsgUnsupported, MsgOutputExists}

\* the resolved paths of the inputs of the batch
InputFiles == {Resolve(files[i]) : i \in Tasks}

\* C22: no convert call deletes or writes an input file: files are only added,
\* each added file is the .avif output of a task that invoked the codec, and
\* the path the codec writes is never an input of the batch; a
\* call that returns 'File not found', 'Unsupported format' or 'Output
\* exists' changes no file and no directory and has called neither mkdir nor
\* the codec; the output directory is created only by a call that then
\* invokes the codec.
C22_FrameOfConvert ==
    /\ [](/\ fs0 \subseteq fs_files
          /\ InitialDirs \subseteq fs_dirs
          /\ (fs_files \ fs0) \cap InputFiles = {}
          /\ \A i \in Tasks :
                /\ (tpc[i] = "finished" /\ EarlyReturn(outcome[i])) =>
                      mkdir_calls[i] = 0 /\ codec_calls[i] = 0
                /\ (tpc[i] = "finished" /\ mkdir_calls[i] = 1 /\ ~outcome[i].raised) =>
                      codec_calls[i] = 1
                /\ codec_calls[i] >= 1 =>
                      Resolve(get_output_path(files[i], output_dir)) \notin InputFiles
          /\ fs_dirs # InitialDirs =>
                /\ fs_dirs = InitialDirs \cup {Absolute(output_dir)}
                /\ \E i \in Tasks : mkdir_calls[i] = 1 /\ tpc[i] \in {"codec", "finished"}
                                      /\ ~outcome[i].raised)
    /\ [][\A i \in Tasks :
            (tpc[i] # "finished" /\ tpc'[i] = "finished" /\ EarlyReturn(outcome'[i])) =>
                fs_files' = fs_files /\ fs_dirs' = fs_dirs]_vars
    /\ [][fs_files' # fs_files =>
            \E i \in Tasks :
                /\ codec_calls'[i] = codec_calls[i] + 1
                /\ fs_files' = fs_files \cup {Resolve(get_output_path(files[i], output_dir))}
                /\ get_output_path(files[i], output_dir).suffix = OUTPUT_FORMAT]_vars
    /\ [][fs_dirs' # fs_dirs =>
            \E i \in Tasks : tpc[i] = "mkdir" /\ tpc'[i] = "codec"]_vars

\* C22 witness: process returned a batch with an output directory in which a
\* call returned 'File not found'; the directory was not created and no file
\* was written.
C22_Witness ==
    /\ pc = "returned"
    /\ output_dir = <<"out">>
    /\ \E i \in Tasks : outcome[i].res.error_message = MsgNotFound
    /\ Absolute(output_dir) \notin fs_dirs
    /\ fs_files = fs0

\* the shape of the k-th result of the batch, the result of task handled[k]
ResultShape(k) ==
    LET r == result.results[k]
        o == outcome[handled[k]]
    IN  /\ r.success => r.output_path # NonePath /\ r.error_message = NoneMsg
        /\ r.output_path = NonePath => ~r.success
        /\ r.output_path = NonePath <=>
              (o.raised \/ r.error_message \in {MsgNotFound, MsgUnsupported})
        /\ (~o.raised /\ (r.success \/ r.error_message \in {MsgOutputExists, MsgCodec})) =>
              r.output_path = get_output_path(files[handled[k]], output_dir)
        /\ ~r.success => r.error_message # NoneMsg
        /\ r.input_path = files[handled[k]]

\* C23: every ConversionResult of the BatchResult has success = true only with
\* an output path and no error message, and has no output path exactly when it
\* is a 'File not found' result, an 'Unsupported format' result or the result
\* of a task that raised; 'Output exists', codec-failure and success results
\* carry the output path.
C23_ResultShape ==
    /\ Len(result.results) = Len(handled)
    /\ \A k \in 1..Len(result.results) : ResultShape(k)

\* C23 witness: process returned a batch holding an 'Output exists' result
\* with its output path and the result of a task that raised with none.
C23_Witness ==
    /\ pc = "returned"
    /\ \E k \in 1..Len(result.results) :
          /\ result.results[k].error_message = MsgOutputExists
          /\ result.results[k].output_path # NonePath
    /\ \E k \in 1..Len(result.results) :
          /\ outcome[handled[k]].raised
          /\ result.results[k].output_path = NonePath
          /\ result.results[k].error_message # NoneMsg

\* process returned a batch holding a success and a codec failure
C23_SuccessAndCodecFailure ==
    /\ pc = "returned"
    /\ \E k \in 1..Len(result.results) : result.results[k].success
    /\ \E k \in 1..Len(result.results) : result.results[k].error_message = MsgCodec

====
